---- MODULE Spec2Model ----
(***************************************************************************)
(* Sign-and-Publish workflow of scorecard-action: main.go drives the       *)
(* primary scan, the forced-JSON re-run (GetJSONScorecardResults), the     *)
(* signer (SignScorecardResult) and the publisher (ProcessSignature).      *)
(* Strings that travel through json.Marshal are sequences of bytes         *)
(* (0..255); configuration values that are only compared are TLA+ strings. *)
(***************************************************************************)
EXTENDS Integers, Sequences, FiniteSets, TLC

VARIABLES
    pc,          \* where main (and the function it is in) stands
    env,         \* the process environment: name -> [set, val]
    fs,          \* the files on disk: path -> [exists, data]
    saved,       \* the arguments of GetJSONScorecardResults' deferred Setenv calls
    jsonPayload, \* main's jsonPayload
    req,         \* the request ProcessSignature built
    elapsed,     \* seconds since the request's context was created
    resp,        \* the response client.Do returned, if any
    err,         \* the error main died with (kind "none": no error)
    trace,       \* history: the phases started, in order
    env0,        \* history: the environment the process started with
    envAtCall,   \* history: the environment when GetJSONScorecardResults was called
    handed,      \* history: the file handed to the signer and its content then
    written,     \* history: what the secondary scan wrote
    sent,        \* history: the HTTP requests put on the wire
    wireMethod   \* the method of the request on the wire

vars == <<pc, env, fs, saved, jsonPayload, req, elapsed, resp, err,
          trace, env0, envAtCall, handed, written, sent, wireMethod>>

(***************************************************************************)
(* Bounds and program constants                                            *)
(***************************************************************************)
\* longest results.json content the secondary scan writes, in bytes
MaxLen == 1

\* context.WithTimeout(req.Context(), 10*time.Second)
TimeoutSeconds == 10

\* http.StatusCreated
StatusCreated == 201

(***************************************************************************)
(* encoding/json as used by json.Marshal(resultsPayload)                   *)
(***************************************************************************)
\* the bytes that may occur in a string handed to ProcessSignature:
\* '\n' '"' '<' 'a' and the two bytes of U+00E9 (0xC3 0xA9)
Bytes == {10, 34, 60, 97, 169, 195}

\* 0123456789abcdef
HexDigit(n) == IF n < 10 THEN 48 + n ELSE 87 + n

HexVal(b) ==
    IF b >= 48 /\ b <= 57 THEN b - 48
    ELSE IF b >= 97 /\ b <= 102 THEN b - 87
    ELSE IF b >= 65 /\ b <= 70 THEN b - 55
    ELSE -1

IsCont(s, i) == i <= Len(s) /\ s[i] >= 128 /\ s[i] <= 191

InRange(s, i, lo, hi) == i <= Len(s) /\ s[i] >= lo /\ s[i] <= hi

\* utf8.DecodeRune at position i: the size of the rune, 0 for RuneError
RuneSize(s, i) ==
    LET b == s[i] IN
    IF b < 128 THEN 1
    ELSE IF b >= 194 /\ b <= 223 THEN (IF IsCont(s, i + 1) THEN 2 ELSE 0)
    ELSE IF b = 224 THEN
        (IF InRange(s, i + 1, 160, 191) /\ IsCont(s, i + 2) THEN 3 ELSE 0)
    ELSE IF b = 237 THEN
        (IF InRange(s, i + 1, 128, 159) /\ IsCont(s, i + 2) THEN 3 ELSE 0)
    ELSE IF b >= 225 /\ b <= 239 THEN
        (IF IsCont(s, i + 1) /\ IsCont(s, i + 2) THEN 3 ELSE 0)
    ELSE IF b = 240 THEN
        (IF InRange(s, i + 1, 144, 191) /\ IsCont(s, i + 2) /\ IsCont(s, i + 3)
         THEN 4 ELSE 0)
    ELSE IF b = 244 THEN
        (IF InRange(s, i + 1, 128, 143) /\ IsCont(s, i + 2) /\ IsCont(s, i + 3)
         THEN 4 ELSE 0)
    ELSE IF b >= 241 /\ b <= 243 THEN
        (IF IsCont(s, i + 1) /\ IsCont(s, i + 2) /\ IsCont(s, i + 3)
         THEN 4 ELSE 0)
    ELSE 0

RECURSIVE Utf8ValidFrom(_, _)
Utf8ValidFrom(s, i) ==
    IF i > Len(s) THEN TRUE
    ELSE LET n == RuneSize(s, i) IN
         IF n = 0 THEN FALSE ELSE Utf8ValidFrom(s, i + n)

Utf8Valid(s) == Utf8ValidFrom(s, 1)

\* htmlSafeSet of encoding/json: printable ASCII but " \ < > &
HtmlSafe(b) == b >= 32 /\ b < 128 /\ b \notin {34, 92, 60, 62, 38}

\* the six bytes of the escape \ufffd, written for an invalid byte
EscReplacement == <<92, 117, 102, 102, 102, 100>>

\* a bug: every ASCII byte is copied as it is
EscByteRaw(b) == <<b>>

\* the escape encodeState.string writes for the ASCII byte b
EscByte(b) ==
    IF HtmlSafe(b) THEN <<b>>
    ELSE IF b = 92 \/ b = 34 THEN <<92, b>>
    ELSE IF b = 10 THEN <<92, 110>>
    ELSE IF b = 13 THEN <<92, 114>>
    ELSE IF b = 9 THEN <<92, 116>>
    ELSE <<92, 117, 48, 48, HexDigit(b \div 16), HexDigit(b % 16)>>

\* encodeState.string without the surrounding quotes, from position i
RECURSIVE EncodeFrom(_, _)
EncodeFrom(s, i) ==
    IF i > Len(s) THEN <<>>
    ELSE IF s[i] < 128 THEN EscByte(s[i]) \o EncodeFrom(s, i + 1)
    ELSE LET n == RuneSize(s, i) IN
         IF n = 0 THEN EscReplacement \o EncodeFrom(s, i + 1)
         ELSE IF n = 3 /\ s[i] = 226 /\ s[i + 1] = 128 /\ s[i + 2] \in {168, 169}
              THEN <<92, 117, 50, 48, 50, HexDigit(s[i + 2] % 16)>>
                   \o EncodeFrom(s, i + 3)
         ELSE SubSeq(s, i, i + n - 1) \o EncodeFrom(s, i + n)

EncodeString(s) == EncodeFrom(s, 1)

\* utf8.EncodeRune
EncodeRune(r) ==
    IF r < 128 THEN <<r>>
    ELSE IF r < 2048 THEN <<192 + (r \div 64), 128 + (r % 64)>>
    ELSE IF (r >= 55296 /\ r <= 57343) \/ r > 65535 THEN <<239, 191, 189>>
    ELSE <<224 + (r \div 4096), 128 + ((r \div 64) % 64), 128 + (r % 64)>>

\* getu4: the value of the four hex digits at w[i..i+3], -1 when malformed
GetU4(w, i) ==
    IF i + 3 > Len(w) THEN -1
    ELSE LET a == HexVal(w[i])
             b == HexVal(w[i + 1])
             c == HexVal(w[i + 2])
             d == HexVal(w[i + 3])
         IN IF a < 0 \/ b < 0 \/ c < 0 \/ d < 0 THEN -1
            ELSE ((a * 16 + b) * 16 + c) * 16 + d

\* the byte a one-letter escape stands for, -1 when it is none
ShortEscape(c) ==
    IF c \in {34, 92, 47, 39} THEN c
    ELSE IF c = 98 THEN 8
    ELSE IF c = 102 THEN 12
    ELSE IF c = 110 THEN 10
    ELSE IF c = 114 THEN 13
    ELSE IF c = 116 THEN 9
    ELSE -1

\* what a JSON decoder reads back from the string literal w (no quotes):
\* [ok, val]
RECURSIVE UnquoteFrom(_, _)
UnquoteFrom(w, i) ==
    IF i > Len(w) THEN [ok |-> TRUE, val |-> <<>>]
    ELSE LET c == w[i] IN
         IF c = 92 THEN
            IF i + 1 > Len(w) THEN [ok |-> FALSE, val |-> <<>>]
            ELSE IF w[i + 1] = 117 THEN
                LET r == GetU4(w, i + 2)
                    rest == UnquoteFrom(w, i + 6)
                IN IF r < 0 THEN [ok |-> FALSE, val |-> <<>>]
                   ELSE [ok |-> rest.ok, val |-> EncodeRune(r) \o rest.val]
            ELSE LET e == ShortEscape(w[i + 1])
                     rest == UnquoteFrom(w, i + 2)
                 IN IF e < 0 THEN [ok |-> FALSE, val |-> <<>>]
                    ELSE [ok |-> rest.ok, val |-> <<e>> \o rest.val]
         ELSE IF c = 34 \/ c < 32 THEN [ok |-> FALSE, val |-> <<>>]
         ELSE IF c < 128 THEN
            LET rest == UnquoteFrom(w, i + 1)
            IN [ok |-> rest.ok, val |-> <<c>> \o rest.val]
         ELSE LET n == RuneSize(w, i) IN
              IF n = 0 THEN
                 LET rest == UnquoteFrom(w, i + 1)
                 IN [ok |-> rest.ok, val |-> <<239, 191, 189>> \o rest.val]
              ELSE LET rest == UnquoteFrom(w, i + n)
                   IN [ok |-> rest.ok, val |-> SubSeq(w, i, i + n - 1) \o rest.val]

Unquote(w) == UnquoteFrom(w, 1)

(***************************************************************************)
(* The wire body: json.Marshal of the struct of signing.go:91-99           *)
(***************************************************************************)
FieldLit(name, value) == [name |-> name, lit |-> EncodeString(value)]

\* json.Marshal(resultsPayload): the fields in declaration order, under
\* their json tags
Marshal(p) ==
    << FieldLit("result", p.Result),
       FieldLit("branch", p.Branch),
       FieldLit("accessToken", p.AccessToken) >>

\* the object a JSON decoder builds from the wire body: [ok, fields]
Unmarshal(body) ==
    LET names == {body[i].name : i \in 1..Len(body)}
        at(n) == CHOOSE i \in 1..Len(body) :
                     body[i].name = n /\ \A j \in 1..Len(body) :
                                             body[j].name = n => j <= i
    IN [ok     |-> \A i \in 1..Len(body) : Unquote(body[i].lit).ok,
        fields |-> [n \in names |-> Unquote(body[at(n)].lit).val]]

(***************************************************************************)
(* The environment and the disk                                            *)
(***************************************************************************)
EnvInputResultsFile == "INPUT_RESULTS_FILE"
EnvInputResultsFormat == "INPUT_RESULTS_FORMAT"
EnvInputPublishResults == "INPUT_PUBLISH_RESULTS"
EnvGithubRepository == "GITHUB_REPOSITORY"
EnvGithubRef == "GITHUB_REF"
EnvInputRepoToken == "INPUT_REPO_TOKEN"
EnvInputInternalPublishBaseURL == "INPUT_INTERNAL_PUBLISH_BASE_URL"
CosignExperimental == "COSIGN_EXPERIMENTAL"

\* the variables whose values are carried as bytes
ByteVars == {EnvGithubRef, EnvInputRepoToken}

EnvNames == {EnvInputResultsFile, EnvInputResultsFormat, EnvInputPublishResults,
             EnvGithubRepository, EnvGithubRef, EnvInputRepoToken,
             EnvInputInternalPublishBaseURL, CosignExperimental}

\* the empty string, in the representation of variable k
Empty(k) == IF k \in ByteVars THEN <<>> ELSE ""

Unset(k) == [set |-> FALSE, val |-> Empty(k)]

Val(v) == [set |-> TRUE, val |-> v]

\* os.Getenv: the value, or the empty string when the variable is not set
Getenv(e, k) == IF e[k].set THEN e[k].val ELSE Empty(k)

\* os.Setenv: the variable is set afterwards, whatever the value
Setenv(e, k, v) == [e EXCEPT ![k] = [set |-> TRUE, val |-> v]]

ResultsJSON == "results.json"

Paths == {ResultsJSON, "results.sarif"}

NoFile == [exists |-> FALSE, data |-> <<>>]

FileExists(f, path) == path \in DOMAIN f /\ f[path].exists

FileData(f, path) == IF FileExists(f, path) THEN f[path].data ELSE <<>>

\* the scan engine writes its report to the configured path; with no path
\* configured the report goes to standard output
WriteFile(f, path, data) ==
    IF path \in DOMAIN f THEN [f EXCEPT ![path] = [exists |-> TRUE, data |-> data]]
    ELSE f

(***************************************************************************)
(* Inputs                                                                  *)
(***************************************************************************)
RECURSIVE SeqsUpTo(_, _)
SeqsUpTo(S, n) ==
    IF n = 0 THEN {<<>>}
    ELSE LET shorter == SeqsUpTo(S, n - 1)
         IN shorter \cup {Append(s, b) : s \in {t \in shorter : Len(t) = n - 1}, b \in S}

\* what the secondary scan can write as JSON: UTF-8 text
JSONPayloads == {s \in SeqsUpTo(Bytes, MaxLen) : Utf8Valid(s)}

\* what the primary scan writes, in the user's format
PrimaryData == <<115>>

FileValues == {Unset(EnvInputResultsFile), Val("results.sarif"), Val(ResultsJSON)}
FormatValues == {Unset(EnvInputResultsFormat), Val(""), Val("sarif")}
PublishValues == {Unset(EnvInputPublishResults), Val("true"), Val("TRUE"), Val("false")}
\* a<  and a lone 0xC3 followed by a
RefValues == {Val(<<97, 60>>), Val(<<195, 97>>)}
\* " followed by U+00E9
TokenValues == {Val(<<34, 195, 169>>)}
BaseURLValues == {Val("https://api.example.com"), Val("https://api.example.com/%zz")}

\* the status codes and bodies the remote endpoint answers with
Statuses == {200, 201, 400, 500}
Bodies == {<<>>, <<101>>}

\* the statuses http.Client follows when the answer names a Location
RedirectStatuses == {301, 302, 303, 307, 308}

(***************************************************************************)
(* Errors                                                                  *)
(***************************************************************************)
PhaseCommand == "command execution"
PhaseJSON == "generating json scorecard results"
PhaseSign == "signing scorecard json results"
PhaseProcess == "processing signature"

\* nil
NoErr == [phase |-> "none", kind |-> "none", status |-> 0, body |-> <<>>,
          timeout |-> FALSE]

Errorf(kind) == [NoErr EXCEPT !.kind = kind]

IsNil(e) == e.kind = "none"

\* log.Fatalf("error <phase>: %v", err)
Fatalf(phase, e) == [e EXCEPT !.phase = phase]

(***************************************************************************)
(* Decisions of main and of the three functions                            *)
(***************************************************************************)
\* main.go:29-31
AfterExecute(e) == IF IsNil(e) THEN "ReadFlag" ELSE "Fatal"

\* a bug: the flag is compared without regard to case
EnterBranchAnyCase(flag) == flag \in {"true", "TRUE", "True"}

\* main.go:33
EnterBranch(flag) == flag = "true"

\* a bug: the error of the re-run is dropped
AfterGetJSONIgnoringError(e) == "Sign"

\* main.go:36-38
AfterGetJSON(e) == IF IsNil(e) THEN "Sign" ELSE "Fatal"

\* a bug: the signer is handed the file the environment names
SignedFileFromEnv == Getenv(env, EnvInputResultsFile)

\* main.go:41: the file main hands to SignScorecardResult
SignedFile == ResultsJSON

\* a bug: the signer's error is dropped
AfterSignIgnoringError(e) == "PS_Build"

\* main.go:41-43
AfterSign(e) == IF IsNil(e) THEN "PS_Build" ELSE "Fatal"

\* main.go:49-51
AfterProcess(e) == IF IsNil(e) THEN "Done" ELSE "Fatal"

\* signing.go:68-69 run at return, last deferred first: the format, then the
\* file, each set to the value os.Getenv gave when the defer was evaluated
RunDeferred(e, sv) ==
    Setenv(Setenv(e, EnvInputResultsFormat, sv.format), EnvInputResultsFile, sv.file)

\* os.Setenv fails on an empty name or one holding '='
SetenvFails(k) == k \in {"", "="}

\* json.Marshal has no failing case for a struct of three strings
MarshalFails(p) == FALSE

\* url.Parse fails on a malformed percent escape
ParseFails(rawURL) == rawURL[1] = "https://api.example.com/%zz"

\* http.NewRequest fails on a method that is no token
NewRequestFails(method) == method \notin {"GET", "POST", "PUT", "DELETE"}

\* a bug: the request carries no deadline
NoDeadline(t) == FALSE

\* signing.go:120: the context is done once its timeout has passed
DeadlineReached(t) == t >= TimeoutSeconds

\* a bug: every 2xx status counts as success
NotSuccessful(status) == status < 200 \/ status > 299

\* signing.go:132
NotCreated(status) == status # StatusCreated

\* a bug: the error carries the status alone
StatusErrorNoBody(status, body) == [Errorf("httpStatus") EXCEPT !.status = status]

\* signing.go:137
StatusError(status, body) ==
    [Errorf("httpStatus") EXCEPT !.status = status, !.body = body]

NoReq == [made |-> FALSE, method |-> "", url |-> <<>>, body |-> <<>>,
          contentType |-> ""]

NoResp == [got |-> FALSE, status |-> 0, body |-> <<>>, read |-> "none"]

NoHistory == [has |-> FALSE, path |-> "", data |-> <<>>]

(***************************************************************************)
(* The state machine                                                       *)
(***************************************************************************)
Init ==
    /\ pc = "ScanPrimary"
    /\ \E f \in FileValues, fmt \in FormatValues, p \in PublishValues,
          r \in RefValues, t \in TokenValues, u \in BaseURLValues :
          env = [k \in EnvNames |->
                    CASE k = EnvInputResultsFile -> f
                      [] k = EnvInputResultsFormat -> fmt
                      [] k = EnvInputPublishResults -> p
                      [] k = EnvGithubRepository -> Val("octo/repo")
                      [] k = EnvGithubRef -> r
                      [] k = EnvInputRepoToken -> t
                      [] k = EnvInputInternalPublishBaseURL -> u
                      [] OTHER -> Unset(k)]
    /\ fs = [p \in Paths |-> NoFile]
    /\ saved = [file |-> "", format |-> ""]
    /\ jsonPayload = <<>>
    /\ req = NoReq
    /\ elapsed = 0
    /\ resp = NoResp
    /\ err = NoErr
    /\ trace = <<>>
    /\ env0 = env
    /\ envAtCall = env
    /\ handed = NoHistory
    /\ written = NoHistory
    /\ sent = 0
    /\ wireMethod = ""

\* main.go:28-31: the primary scan, with the user's output configuration
ExecutePrimary ==
    /\ pc = "ScanPrimary"
    /\ trace' = Append(trace, "ScanPrimary")
    /\ \E ok \in BOOLEAN :
          LET e == IF ok THEN NoErr ELSE Errorf("execute") IN
          /\ fs' = IF ok THEN WriteFile(fs, Getenv(env, EnvInputResultsFile), PrimaryData)
                   ELSE fs
          /\ pc' = AfterExecute(e)
          /\ err' = IF IsNil(e) THEN err ELSE Fatalf(PhaseCommand, e)
    /\ UNCHANGED <<env, saved, jsonPayload, req, elapsed, resp, env0, envAtCall,
                   handed, written, sent, wireMethod>>

\* main.go:33: the publish flag is read and compared
ReadPublishFlag ==
    /\ pc = "ReadFlag"
    /\ trace' = Append(trace, "ReadFlag")
    /\ pc' = IF EnterBranch(Getenv(env, EnvInputPublishResults)) THEN "GJ_Enter"
             ELSE "Done"
    /\ UNCHANGED <<env, fs, saved, jsonPayload, req, elapsed, resp, err, env0,
                   envAtCall, handed, written, sent, wireMethod>>

\* signing.go:68-71: the deferred calls' arguments are evaluated, then the
\* output settings are forced
GJ_Enter ==
    /\ pc = "GJ_Enter"
    /\ trace' = Append(trace, "ScanSecondary")
    /\ envAtCall' = env
    /\ saved' = [file |-> Getenv(env, EnvInputResultsFile),
                 format |-> Getenv(env, EnvInputResultsFormat)]
    /\ env' = Setenv(Setenv(env, EnvInputResultsFile, ResultsJSON),
                     EnvInputResultsFormat, "json")
    /\ pc' = "GJ_Execute"
    /\ UNCHANGED <<fs, jsonPayload, req, elapsed, resp, err, env0, handed,
                   written, sent, wireMethod>>

\* signing.go:73-76 (and main.go:36-38 when it fails)
GJ_Execute ==
    /\ pc = "GJ_Execute"
    /\ \E ok \in BOOLEAN, data \in JSONPayloads :
          LET e == IF ok THEN NoErr ELSE Errorf("execute")
              path == Getenv(env, EnvInputResultsFile)
          IN IF ok
             THEN /\ fs' = WriteFile(fs, path, data)
                  /\ written' = [has |-> TRUE, path |-> path, data |-> data]
                  /\ pc' = "GJ_ReadFile"
                  /\ UNCHANGED <<env, err>>
             ELSE /\ env' = RunDeferred(env, saved)
                  /\ pc' = AfterGetJSON(e)
                  /\ err' = Fatalf(PhaseJSON, e)
                  /\ UNCHANGED <<fs, written>>
    /\ UNCHANGED <<saved, jsonPayload, req, elapsed, resp, trace, env0, envAtCall,
                   handed, sent, wireMethod>>

\* signing.go:79-84 (and main.go:36-38): the file named by the environment is
\* read back, the deferred calls run, the function returns
GJ_ReadFile ==
    /\ pc = "GJ_ReadFile"
    /\ \E ioOk \in BOOLEAN :
          LET path == Getenv(env, EnvInputResultsFile)
              ok == FileExists(fs, path) /\ ioOk
              e == IF ok THEN NoErr ELSE Errorf("readFile")
          IN /\ jsonPayload' = IF ok THEN FileData(fs, path) ELSE jsonPayload
             /\ pc' = AfterGetJSON(e)
             /\ err' = IF IsNil(e) THEN err ELSE Fatalf(PhaseJSON, e)
    /\ env' = RunDeferred(env, saved)
    /\ UNCHANGED <<fs, saved, req, elapsed, resp, trace, env0, envAtCall, handed,
                   written, sent, wireMethod>>

\* signing.go:39-63 (and main.go:41-43)
SignScorecardResult ==
    /\ pc = "Sign"
    /\ trace' = Append(trace, "Sign")
    /\ env' = Setenv(env, CosignExperimental, "true")
    /\ handed' = [has |-> TRUE, path |-> SignedFile, data |-> FileData(fs, SignedFile)]
    /\ \E signOk \in BOOLEAN :
          LET e == IF SetenvFails(CosignExperimental) THEN Errorf("setenv")
                   ELSE IF FileExists(fs, SignedFile) /\ signOk THEN NoErr
                   ELSE Errorf("signBlob")
          IN /\ pc' = AfterSign(e)
             /\ err' = IF IsNil(e) THEN err ELSE Fatalf(PhaseSign, e)
    /\ UNCHANGED <<fs, saved, jsonPayload, req, elapsed, resp, env0, envAtCall,
                   written, sent, wireMethod>>

\* main.go:46-49 and signing.go:88-122: the body is marshalled, the endpoint
\* built and parsed, the request made and given its deadline
PS_Build ==
    /\ pc = "PS_Build"
    /\ trace' = Append(trace, "Publish")
    /\ LET repoName == Getenv(env, EnvGithubRepository)
           repoRef == Getenv(env, EnvGithubRef)
           accessToken == Getenv(env, EnvInputRepoToken)
           resultsPayload == [Result |-> jsonPayload, Branch |-> repoRef,
                              AccessToken |-> accessToken]
           payloadBytes == Marshal(resultsPayload)
           apiURL == Getenv(env, EnvInputInternalPublishBaseURL)
           rawURL == <<apiURL, "/projects/github.com/", repoName>>
           e == IF MarshalFails(resultsPayload) THEN Errorf("marshal")
                ELSE IF ParseFails(rawURL) THEN Errorf("parseURL")
                ELSE IF NewRequestFails("POST") THEN Errorf("newRequest")
                ELSE NoErr
       IN IF IsNil(e)
          THEN /\ req' = [made |-> TRUE, method |-> "POST", url |-> rawURL,
                          body |-> payloadBytes,
                          contentType |-> "application/json"]
               /\ pc' = "PS_Do"
               /\ UNCHANGED err
          ELSE /\ pc' = AfterProcess(e)
               /\ err' = Fatalf(PhaseProcess, e)
               /\ UNCHANGED req
    /\ elapsed' = 0
    /\ UNCHANGED <<env, fs, saved, jsonPayload, resp, env0, envAtCall, handed,
                   written, sent, wireMethod>>

\* net/http defaultCheckRedirect: "stopped after 10 redirects" once ten
\* requests have been made
TooManyRedirects(n) == n >= 10

\* net/http redirectBehavior: 301, 302 and 303 turn the POST into a GET
\* without a body; 307 and 308 repeat the method and, GetBody being set for
\* a bytes.Buffer, the body
RedirectMethod(status, method) ==
    IF status \in {301, 302, 303}
    THEN (IF method \in {"GET", "HEAD"} THEN method ELSE "GET")
    ELSE method

\* signing.go:125-126: the request is handed to the client, which puts it on
\* the wire
PS_Send ==
    /\ pc = "PS_Do"
    /\ sent' = sent + 1
    /\ wireMethod' = req.method
    /\ pc' = "PS_Await"
    /\ UNCHANGED <<env, fs, saved, jsonPayload, req, elapsed, resp, err, trace,
                   env0, envAtCall, handed, written>>

\* a second passes while client.Do or io.ReadAll waits
Tick ==
    /\ pc \in {"PS_Await", "PS_ReadBody"}
    /\ elapsed < TimeoutSeconds
    /\ elapsed' = elapsed + 1
    /\ UNCHANGED <<pc, env, fs, saved, jsonPayload, req, resp, err, trace, env0,
                   envAtCall, handed, written, sent, wireMethod>>

\* signing.go:120-129: the context's deadline passes before client.Do has a
\* response to return
PS_Deadline ==
    /\ pc = "PS_Await"
    /\ DeadlineReached(elapsed)
    /\ LET e == [Errorf("do") EXCEPT !.timeout = TRUE]
       IN /\ pc' = AfterProcess(e)
          /\ err' = Fatalf(PhaseProcess, e)
    /\ elapsed' = 0
    /\ UNCHANGED <<env, fs, saved, jsonPayload, req, resp, trace, env0, envAtCall,
                   handed, written, sent, wireMethod>>

\* signing.go:126-129: client.Do fails without a response
PS_TransportError ==
    /\ pc = "PS_Await"
    /\ LET e == Errorf("do")
       IN /\ pc' = AfterProcess(e)
          /\ err' = Fatalf(PhaseProcess, e)
    /\ elapsed' = 0
    /\ UNCHANGED <<env, fs, saved, jsonPayload, req, resp, trace, env0, envAtCall,
                   handed, written, sent, wireMethod>>

\* signing.go:125-129: inside client.Do the endpoint answers with a redirect
\* and a Location; the client sends the next request itself, or gives up
\* with an error once ten requests have been made, and then client.Do
\* returns that last redirect response together with the error, its body
\* closed and unread; a response that comes after the deadline is not taken
PS_Redirect ==
    /\ pc = "PS_Await"
    /\ ~DeadlineReached(elapsed)
    /\ \E status \in RedirectStatuses :
          IF TooManyRedirects(sent)
          THEN LET e == Errorf("do")
               IN /\ pc' = AfterProcess(e)
                  /\ err' = Fatalf(PhaseProcess, e)
                  /\ resp' = [NoResp EXCEPT !.got = TRUE, !.status = status]
                  /\ elapsed' = 0
                  /\ UNCHANGED <<sent, wireMethod>>
          ELSE /\ sent' = sent + 1
               /\ wireMethod' = RedirectMethod(status, wireMethod)
               /\ UNCHANGED <<pc, err, elapsed, resp>>
    /\ UNCHANGED <<env, fs, saved, jsonPayload, req, trace, env0, envAtCall,
                   handed, written>>

\* signing.go:126-132, 140: client.Do returns a response; with status 201
\* the function returns nil, with any other status it goes on to read the
\* body, the deadline still running
PS_Response ==
    /\ pc = "PS_Await"
    /\ ~DeadlineReached(elapsed)
    /\ \E status \in Statuses :
          /\ resp' = [NoResp EXCEPT !.got = TRUE, !.status = status]
          /\ IF NotCreated(status)
             THEN /\ pc' = "PS_ReadBody"
                  /\ UNCHANGED elapsed
             ELSE /\ pc' = AfterProcess(NoErr)
                  /\ elapsed' = 0
    /\ UNCHANGED <<env, fs, saved, jsonPayload, req, err, trace, env0, envAtCall,
                   handed, written, sent, wireMethod>>

\* signing.go:133, 137: io.ReadAll returns the body; the error carries the
\* status and the body
PS_BodyRead ==
    /\ pc = "PS_ReadBody"
    /\ ~DeadlineReached(elapsed)
    /\ \E body \in Bodies :
          LET e == StatusError(resp.status, body)
          IN /\ resp' = [resp EXCEPT !.body = body, !.read = "ok"]
             /\ pc' = AfterProcess(e)
             /\ err' = Fatalf(PhaseProcess, e)
    /\ elapsed' = 0
    /\ UNCHANGED <<env, fs, saved, jsonPayload, req, trace, env0, envAtCall,
                   handed, written, sent, wireMethod>>

\* signing.go:133-136: io.ReadAll fails on the connection
PS_BodyReadError ==
    /\ pc = "PS_ReadBody"
    /\ LET e == Errorf("readBody")
       IN /\ pc' = AfterProcess(e)
          /\ err' = Fatalf(PhaseProcess, e)
    /\ resp' = [resp EXCEPT !.read = "failed"]
    /\ elapsed' = 0
    /\ UNCHANGED <<env, fs, saved, jsonPayload, req, trace, env0, envAtCall,
                   handed, written, sent, wireMethod>>

\* signing.go:120-122, 133-136: the context's deadline passes while
\* io.ReadAll waits for the body, and the read fails with it
PS_BodyDeadline ==
    /\ pc = "PS_ReadBody"
    /\ DeadlineReached(elapsed)
    /\ LET e == [Errorf("readBody") EXCEPT !.timeout = TRUE]
       IN /\ pc' = AfterProcess(e)
          /\ err' = Fatalf(PhaseProcess, e)
    /\ resp' = [resp EXCEPT !.read = "failed"]
    /\ elapsed' = 0
    /\ UNCHANGED <<env, fs, saved, jsonPayload, req, trace, env0, envAtCall,
                   handed, written, sent, wireMethod>>

Next ==
    \/ ExecutePrimary
    \/ ReadPublishFlag
    \/ GJ_Enter
    \/ GJ_Execute
    \/ GJ_ReadFile
    \/ SignScorecardResult
    \/ PS_Build
    \/ PS_Send
    \/ Tick
    \/ PS_Deadline
    \/ PS_TransportError
    \/ PS_Redirect
    \/ PS_Response
    \/ PS_BodyRead
    \/ PS_BodyReadError
    \/ PS_BodyDeadline

Spec == Init /\ [][Next]_vars

\* the process keeps running and time keeps passing; the remote endpoint
\* owes nothing
LiveSpec ==
    /\ Spec
    /\ WF_vars(PS_Build)
    /\ WF_vars(PS_Send)
    /\ WF_vars(Tick)
    /\ WF_vars(PS_Deadline)
    /\ WF_vars(PS_BodyDeadline)

(***************************************************************************)
(* Properties                                                              *)
(***************************************************************************)
Range(q) == {q[i] : i \in 1..Len(q)}

IsPrefix(a, b) == Len(a) <= Len(b) /\ a = SubSeq(b, 1, Len(a))

Started(phase) == phase \in Range(trace)

\* GetJSONScorecardResults has been called and has returned
GJReturned == Started("ScanSecondary") /\ pc \notin {"GJ_Execute", "GJ_ReadFile"}

\* ProcessSignature has been called and has returned
PSReturned == Started("Publish") /\ pc \in {"Done", "Fatal"}

\* the string with every byte that is not part of a UTF-8 rune replaced by
\* U+FFFD
RECURSIVE ToValidUTF8From(_, _)
ToValidUTF8From(s, i) ==
    IF i > Len(s) THEN <<>>
    ELSE LET n == RuneSize(s, i) IN
         IF n = 0 THEN <<239, 191, 189>> \o ToValidUTF8From(s, i + 1)
         ELSE SubSeq(s, i, i + n - 1) \o ToValidUTF8From(s, i + n)

ToValidUTF8(s) == ToValidUTF8From(s, 1)

\* C1: once GetJSONScorecardResults has returned, the results-file and
\* results-format variables are what they were when it was called, a variable
\* that was not set included.
C1_EnvRestored ==
    GJReturned =>
        /\ env[EnvInputResultsFile] = envAtCall[EnvInputResultsFile]
        /\ env[EnvInputResultsFormat] = envAtCall[EnvInputResultsFormat]

\* C2: when the secondary scan fails (the sub-command or the read-back), the
\* run is in the fatal state with the error of the JSON-results phase, and the
\* signer and the publisher were never started.
C2_ScanFailureStops ==
    (Started("ScanSecondary") /\ err.kind \in {"execute", "readFile"}) =>
        /\ pc = "Fatal"
        /\ err.phase = PhaseJSON
        /\ ~Started("Sign") /\ ~handed.has
        /\ ~Started("Publish") /\ ~req.made /\ sent = 0

C2_Witness ==
    /\ pc = "Fatal" /\ err.kind = "readFile" /\ err.phase = PhaseJSON
    /\ written.has

\* C3: when SignScorecardResult returns an error, the run is in the fatal
\* state, ProcessSignature was never started and no request was sent.
C3_SignFailureStops ==
    (err.kind \in {"setenv", "signBlob"}) =>
        /\ pc = "Fatal"
        /\ err.phase = PhaseSign
        /\ ~Started("Publish") /\ ~req.made /\ sent = 0

C3_Witness == pc = "Fatal" /\ err.kind = "signBlob" /\ handed.has

\* C4: ProcessSignature returns nil exactly when a response was obtained and
\* its status is 201.
C4_SuccessIff201 ==
    PSReturned => (IsNil(err) <=> (resp.got /\ resp.status = 201))

C4_Witness == PSReturned /\ resp.got /\ resp.status = 200 /\ ~IsNil(err)

\* C5 as claimed: for every response whose status is not 201 the error
\* carries the status and the body.
C5_BodyOnEveryPath ==
    (PSReturned /\ resp.got /\ resp.status # 201) =>
        /\ err.kind = "httpStatus"
        /\ err.status = resp.status
        /\ err.body = resp.body

\* C5 as amended: for every response whose status is not 201, the error
\* carries the status and the body when the body was read; when reading the
\* body failed, the error is the read error and carries neither; and when
\* client.Do returned the response together with an error (the redirect
\* limit), the body is not read and the error is that of client.Do.
C5_BodyWhenRead ==
    (PSReturned /\ resp.got /\ resp.status # 201) =>
        CASE resp.read = "ok" ->
                /\ err.kind = "httpStatus"
                /\ err.status = resp.status
                /\ err.body = resp.body
          [] resp.read = "failed" ->
                /\ resp.body = <<>>
                /\ err.kind = "readBody"
                /\ err.status = 0 /\ err.body = <<>>
          [] OTHER ->
                /\ resp.read = "none"
                /\ resp.status \in RedirectStatuses
                /\ sent = 10
                /\ err.kind = "do" /\ ~err.timeout
                /\ err.status = 0 /\ err.body = <<>>

C5_Witness ==
    /\ PSReturned /\ resp.got /\ resp.status = 500 /\ resp.read = "ok"
    /\ resp.body # <<>> /\ err.body = resp.body

DriverOrder == <<"ScanPrimary", "ReadFlag", "ScanSecondary", "Sign", "Publish">>

\* C6: the phases start in the driver's order, each at most once and only
\* while no error has occurred; the branch is entered only for the flag
\* "true"; for any other flag the run ends after the primary scan with
\* nothing signed, sent or changed; Done and Fatal are final.
C6_LinearDriver ==
    /\ IsPrefix(trace, DriverOrder)
    /\ pc # "Fatal" => IsNil(err)
    /\ pc = "Fatal" => ~IsNil(err)
    /\ Started("ScanSecondary") => Getenv(env0, EnvInputPublishResults) = "true"
    /\ Getenv(env0, EnvInputPublishResults) # "true" =>
          /\ IsPrefix(trace, <<"ScanPrimary", "ReadFlag">>)
          /\ env = env0
          /\ ~written.has /\ ~handed.has /\ ~req.made /\ sent = 0
          /\ pc \in {"ScanPrimary", "ReadFlag", "Done", "Fatal"}
    /\ (pc = "Done" /\ Getenv(env0, EnvInputPublishResults) = "true") =>
          trace = DriverOrder
    /\ pc \in {"Done", "Fatal"} => ~ENABLED Next

C6_Witness ==
    /\ pc = "Done" /\ trace = DriverOrder
    /\ Getenv(env0, EnvInputPublishResults) = "true"

\* C7: every call of ProcessSignature returns; a call still waiting for a
\* response when the 10-second deadline has passed does not return success;
\* a timeout is always an error of the publish phase, and the timeout of
\* client.Do is one without a response.
C7_PublishTerminates ==
    /\ (pc \in {"PS_Build", "PS_Do", "PS_Await", "PS_ReadBody"})
           ~> (pc \in {"Done", "Fatal"})
    /\ [][(pc = "PS_Await" /\ elapsed >= 10) => pc' # "Done"]_vars
    /\ [](err.timeout => (pc = "Fatal" /\ err.phase = PhaseProcess))
    /\ []((err.timeout /\ err.kind = "do") => ~resp.got)

C7_Witness ==
    /\ pc = "Fatal" /\ err.timeout /\ err.kind = "do"
    /\ sent = 1 /\ ~resp.got

\* the object the request body deserializes to has exactly the three fields
ThreeFields(d) == d.ok /\ DOMAIN d.fields = {"result", "branch", "accessToken"}

\* C8 as claimed: the request body deserializes to exactly the fields result,
\* branch and accessToken, equal to the payload, the ref and the token.
C8_RoundTripExact ==
    req.made =>
        LET d == Unmarshal(req.body) IN
        /\ ThreeFields(d)
        /\ d.fields["result"] = jsonPayload
        /\ d.fields["branch"] = Getenv(env, EnvGithubRef)
        /\ d.fields["accessToken"] = Getenv(env, EnvInputRepoToken)

\* C8 as amended: the request body deserializes to exactly the three fields;
\* each equals its input with every byte that is not valid UTF-8 replaced by
\* U+FFFD, hence the input itself when the input is valid UTF-8.
C8_RoundTripUTF8 ==
    req.made =>
        LET d == Unmarshal(req.body)
            ref == Getenv(env, EnvGithubRef)
            token == Getenv(env, EnvInputRepoToken)
        IN /\ ThreeFields(d)
           /\ d.fields["result"] = ToValidUTF8(jsonPayload)
           /\ d.fields["branch"] = ToValidUTF8(ref)
           /\ d.fields["accessToken"] = ToValidUTF8(token)
           /\ Utf8Valid(jsonPayload) => d.fields["result"] = jsonPayload
           /\ Utf8Valid(ref) => d.fields["branch"] = ref
           /\ Utf8Valid(token) => d.fields["accessToken"] = token

C8_Witness ==
    /\ req.made
    /\ 34 \in Range(jsonPayload)
    /\ Utf8Valid(Getenv(env, EnvGithubRef))
    /\ Utf8Valid(Getenv(env, EnvInputRepoToken))
    /\ Unmarshal(req.body).fields["result"] = jsonPayload

\* C9: no run puts more than one publish request on the wire, so never a
\* second POST; the publish phase starts at most once; an error before the
\* request exists leaves none sent; after any error of ProcessSignature the
\* run is over.
C9_AtMostOneRequest ==
    /\ sent <= 1
    /\ ~(sent >= 2 /\ wireMethod = "POST")
    /\ Cardinality({i \in 1..Len(trace) : trace[i] = "Publish"}) <= 1
    /\ err.kind \in {"marshal", "parseURL", "newRequest"} => (sent = 0 /\ ~req.made)
    /\ err.phase = PhaseProcess => (pc = "Fatal" /\ ~ENABLED Next)

\* C10: in the Publish phase the payload is the content the secondary scan
\* wrote to results.json, that file is the one handed to the signer with that
\* same content, it is still on disk unchanged, and the result field of the
\* request carries it.
C10_PublishedIsSigned ==
    /\ Started("Publish") =>
          /\ written.has /\ written.path = ResultsJSON
          /\ handed.has /\ handed.path = written.path
          /\ handed.data = written.data
          /\ jsonPayload = written.data
          /\ FileData(fs, written.path) = written.data
    /\ req.made =>
          Unmarshal(req.body).fields["result"] = handed.data

C10_Witness ==
    /\ req.made /\ pc = "Done"
    /\ Getenv(env0, EnvInputResultsFile) = "results.sarif"
    /\ Getenv(env0, EnvInputResultsFormat) = "sarif"
    /\ FileData(fs, "results.sarif") # handed.data

====
